---------------------------- MODULE Spec2Model ----------------------------
(***************************************************************************)
(* Model of the OPAL Orchestrator chat front end.                          *)
(*                                                                         *)
(*   SpecPoll : one call of waitForChatJob (src/frontend/src/lib/api.ts),  *)
(*              the job poller, with a discrete wall clock, fetch latency  *)
(*              and the setTimeout sleeps between polls.                   *)
(*   Spec     : the conversation state controller ChatPageContent          *)
(*              (src/frontend/src/app/chat/page.tsx): turns, new chat and  *)
(*              conversation selection, interleaved at their awaits.       *)
(*   SpecFetch: calls of fetchAPI (src/frontend/src/lib/api.ts), the       *)
(*              transport layer, with the resolution of the base URL.      *)
(*   SpecHistory: the history panel ChatHistory                            *)
(*              (src/frontend/src/components/Chat/ChatHistory.tsx) on the  *)
(*              chat page: opening it, selecting and deleting              *)
(*              conversations.                                             *)
(***************************************************************************)
EXTENDS Integers, Sequences, FiniteSets, TLC

VARIABLES
    \* ---- waitForChatJob (one call) ----
    now,            \* Date.now(), in ticks
    wpc,            \* position of the call: idle, loop, fetching, sleeping, done
    jobId,          \* argument jobId
    maxWaitTime,    \* const maxWaitTime (after the || default)
    pollInterval,   \* const pollInterval (after the || default)
    hasOnProgress,  \* whether options.onProgress was supplied
    startTime,      \* const startTime = Date.now()
    fetchStart,     \* Date.now() when the pending getChatJob was issued
    wakeAt,         \* due time of the pending setTimeout
    outcome,        \* settlement of the returned promise
    settledAt,      \* Date.now() when the promise settled
    fetches,        \* number of getChatJob calls issued
    progressCalls,  \* number of onProgress invocations
    seen,           \* the results of the getChatJob calls, in order
    \* ---- ChatPageContent ----
    messages,       \* useState messages
    currentPlan,    \* useState currentPlan
    sources,        \* useState sources
    conversationId, \* useState conversationId
    isLoading,      \* useState isLoading
    goal,           \* searchParams.get('goal')
    initialGoalProcessed, \* useState initialGoalProcessed
    turns,          \* handleSendMessage invocations awaiting submission or poll
    turnsStarted,   \* number of handleSendMessage invocations so far
    turnsDone,      \* number of them that ran to their finally block
    loads,          \* handleSelectConversation invocations awaiting getConversation
    loadsStarted,   \* number of handleSelectConversation invocations so far
    settled,        \* history: the turn that completed last and what its awaits gave
    wasReset,       \* history: a new chat or a loaded conversation replaced the transcript
    unhandled,      \* history: an error left a handler instead of being caught in it
    \* ---- fetchAPI ----
    API_URL,        \* let API_URL: undefined until a call has resolved it
    NEXT_PUBLIC_API_URL, \* process.env.NEXT_PUBLIC_API_URL
    configFetches,  \* number of fetch('/config.json') issued
    calls,          \* the fetchAPI calls: position, url, response, settlement
    \* ---- ChatHistory ----
    isHistoryOpen,  \* useState isHistoryOpen of the page (prop isOpen)
    loading,        \* useState loading
    conversations,  \* useState conversations: the ids listed, in order
    deleteConfirm,  \* useState deleteConfirm
    timers,         \* pending setTimeout(() => setDeleteConfirm(null), 3000)
    listLoads,      \* loadConversations invocations awaiting getConversations
    deletes,        \* handleDelete invocations awaiting deleteConversation
    stored,         \* the conversations the backend holds
    opened,         \* history: number of times the panel was opened
    clicks,         \* history: clicks on the delete button, per conversation
    selected        \* history: the conversation selected last in the panel

pollVars == <<now, wpc, jobId, maxWaitTime, pollInterval, hasOnProgress,
              startTime, fetchStart, wakeAt, outcome, settledAt, fetches, progressCalls, seen>>
chatVars == <<messages, currentPlan, sources, conversationId, isLoading,
              goal, initialGoalProcessed, turns, turnsStarted, turnsDone, loads, loadsStarted, settled,
              wasReset, unhandled>>
fetchVars == <<API_URL, NEXT_PUBLIC_API_URL, configFetches, calls>>
historyVars == <<isHistoryOpen, loading, conversations, deleteConfirm, timers,
                 listLoads, deletes, stored, opened, clicks, selected>>
vars == <<pollVars, chatVars, fetchVars, historyVars>>

-----------------------------------------------------------------------------
(* Bounds of the model.  Time is counted in ticks. *)
MaxWaitTime == 3        \* largest maxWaitTime option tried
MaxPollInterval == 2    \* largest pollInterval option tried
MaxLatency == 2         \* longest a getChatJob round trip may take
MaxStart == 1           \* latest time at which the call is made

(* JavaScript's undefined / null for an optional text or object. *)
Absent == "<absent>"
(* The same for an optional object (a record here). *)
Undefined == [undefined |-> TRUE]

JobIds == {"j1", "j2"}

(* The backend names the job of the t-th submission. *)
JobIdOf(t) == IF t = 1 THEN "j1" ELSE "j2"

-----------------------------------------------------------------------------
(* Values exchanged with the backend. *)

(* ChatResponse: plan is Absent or a plan name; sources is a sequence of
   SearchResult records [chunk_id, text]. *)
ConvIds == {"A", "B"}
Plans == {"P1", "P2"}          \* "P1" comes with chat results, "P2" with a stored conversation
Source(c, x) == [chunk_id |-> c, text |-> x]
SourceLists == { <<>>,
                 <<Source("c1", "x")>>,
                 <<Source("c1", "y"), Source("c2", "x")>>,
                 <<Source("c2", "x"), Source("c2", "y")>> }

ChatResponse(m, c, p, ss) ==
    [message |-> m, conversation_id |-> c, plan |-> p, sources |-> ss]

Responses ==
    { ChatResponse(m, c, p, ss) :
        m \in {"answer"}, c \in {"A", Absent},
        p \in {"P1", Absent}, ss \in SourceLists }

(* The results the poller model draws from: a few ChatResponses. *)
PollResponses ==
    { ChatResponse("answer", "A", "P1", <<>>),
      ChatResponse("answer", Absent, Absent,
                   <<Source("c1", "x")>>) }

(* class APIError: message, status, details *)
APIError(message, status, details) ==
    [name |-> "APIError", message |-> message, status |-> status,
     details |-> details]

(* What fetch() itself rejects with when the network fails. *)
NetworkError ==
    [name |-> "TypeError", message |-> "Failed to fetch", status |-> 0,
     details |-> Undefined]

(* fetchAPI on a non-2xx response: message is the body's detail or
   "API error: <status>", status the HTTP status, details the body. *)
ApiStatusText(status) == "API error: " \o ToString(status)

FetchAPIError(status, detail) ==
    APIError(IF detail = Absent \/ detail = "" THEN ApiStatusText(status)
             ELSE detail,
             status,
             [detail |-> detail])

(* JobResponse snapshots, as far as waitForChatJob reads them. *)
Job(status, result, error) ==
    [kind |-> "job", status |-> status, result |-> result, error |-> error]

JobErrorTexts == {Absent, "", "boom", "Job completed but no result returned"}

Snapshots ==
    { Job(s, Undefined, Absent) : s \in {"pending", "processing"} }
    \cup { Job("completed", r, Absent) : r \in PollResponses }
    \cup { Job("completed", Undefined, Absent) }
    \cup { Job("failed", Undefined, e) : e \in JobErrorTexts }

Thrown(e) == [kind |-> "error", error |-> e]

FetchFailures ==
    { Thrown(FetchAPIError(404, "Job not found")),
      Thrown(FetchAPIError(404, Absent)),
      Thrown(FetchAPIError(500, Absent)),
      Thrown(FetchAPIError(503, "unavailable")),
      Thrown(NetworkError) }

(* Everything one await getChatJob(jobId) can produce. *)
FetchResults == Snapshots \cup FetchFailures

-----------------------------------------------------------------------------
(* waitForChatJob *)

Pending == [kind |-> "pending"]
Resolved(v) == [kind |-> "resolved", value |-> v]
Rejected(e) == [kind |-> "rejected", error |-> e]

(* Mutant: a ?? b, which keeps the empty string. *)
OrTextNullish(a, b) == IF a = Absent THEN b ELSE a

(* a || b on optional text: the empty string and undefined are falsy *)
OrText(a, b) == IF a = Absent \/ a = "" THEN b ELSE a

NoResultError == APIError("Job completed but no result returned", 500, Undefined)

(* Mutant: the failure is thrown without its details. *)
JobFailedErrorNoDetails(id, job) ==
    APIError(OrText(job.error, "Chat job failed"), 500, Undefined)

JobFailedError(id, job) ==
    APIError(OrText(job.error, "Chat job failed"), 500,
             [job_id |-> id, error |-> job.error])

TimeoutError(id, maxWait) ==
    APIError("Chat job polling timeout", 504,
             [job_id |-> id, max_wait_time |-> maxWait])

(* Mutant: the whole job is returned instead of job.result. *)
TryBodyReturnsJob(id, job) ==
    IF job.status = "completed"
    THEN IF job.result = Undefined
         THEN [kind |-> "throw", error |-> NoResultError]
         ELSE [kind |-> "return", value |-> job]
    ELSE IF job.status = "failed"
         THEN [kind |-> "throw", error |-> JobFailedError(id, job)]
         ELSE [kind |-> "sleep"]

(* The body of the try block after the fetch returned `job`:
   return the result, throw, or fall through to the sleep. *)
TryBody(id, job) ==
    IF job.status = "completed"
    THEN IF job.result = Undefined
         THEN [kind |-> "throw", error |-> NoResultError]
         ELSE [kind |-> "return", value |-> job.result]
    ELSE IF job.status = "failed"
         THEN [kind |-> "throw", error |-> JobFailedError(id, job)]
         ELSE [kind |-> "sleep"]

(* The catch block: a 404 APIError is retried after a sleep, anything else
   is thrown again. *)
IsNotFound(e) == e.name = "APIError" /\ e.status = 404

(* Mutant: every APIError is retried, whatever its status. *)
CatchBlockRetryAny(e) ==
    IF e.name = "APIError"
    THEN [kind |-> "sleep"]
    ELSE [kind |-> "throw", error |-> e]

(* Mutant: no error is retried. *)
CatchBlockRethrow(e) == [kind |-> "throw", error |-> e]

CatchBlock(e) ==
    IF IsNotFound(e)
    THEN [kind |-> "sleep"]
    ELSE [kind |-> "throw", error |-> e]

(* One pass through try/catch for the fetch result r. *)
Iteration(id, r) ==
    IF r.kind = "job"
    THEN LET t == TryBody(id, r)
         IN  IF t.kind = "throw" THEN CatchBlock(t.error) ELSE t
    ELSE CatchBlock(r.error)

(* Mutant: onProgress is skipped for a terminal snapshot. *)
ProgressOnlyNonTerminal(n, has, r) ==
    IF r.kind = "job" /\ has /\ r.status \in {"pending", "processing"}
    THEN n + 1 ELSE n

(* if (options.onProgress) options.onProgress(job) *)
ProgressCallsAfter(n, has, r) ==
    IF r.kind = "job" /\ has THEN n + 1 ELSE n

(* while (Date.now() - startTime < maxWaitTime) *)
LoopCondition == now - startTime < maxWaitTime

(* Mutant: the promise settles but the loop is not left. *)
SettleKeepsLooping(o) ==
    /\ outcome' = o
    /\ settledAt' = now
    /\ wpc' = "loop"

(* The promise settles and the function is left. *)
Settle(o) ==
    /\ outcome' = o
    /\ settledAt' = now
    /\ wpc' = "done"

(* The call: the options are read and the start time is taken. *)
WaitForChatJob ==
    /\ wpc = "idle"
    /\ wpc' = "loop"
    /\ startTime' = now
    /\ UNCHANGED <<now, jobId, maxWaitTime, pollInterval, hasOnProgress,
                   fetchStart, wakeAt, outcome, settledAt, fetches, progressCalls, seen>>

(* Loop head, condition true: getChatJob(jobId) is issued. *)
LoopFetch ==
    /\ wpc = "loop"
    /\ LoopCondition
    /\ wpc' = "fetching"
    /\ fetches' = fetches + 1
    /\ fetchStart' = now
    /\ UNCHANGED <<now, jobId, maxWaitTime, pollInterval, hasOnProgress,
                   startTime, wakeAt, outcome, settledAt, progressCalls, seen>>

(* Loop head, condition false: the timeout error is thrown. *)
LoopTimeout ==
    /\ wpc = "loop"
    /\ ~LoopCondition
    /\ Settle(Rejected(TimeoutError(jobId, maxWaitTime)))
    /\ UNCHANGED <<now, jobId, maxWaitTime, pollInterval, hasOnProgress,
                   startTime, fetchStart, wakeAt, fetches, progressCalls, seen>>

(* Mutant: the sleep is one tick short of pollInterval. *)
SleepUntilShort == now + pollInterval - 1

(* setTimeout(resolve, pollInterval): the time at which the sleep ends. *)
SleepUntil == now + pollInterval

(* await getChatJob(jobId) completes with r; the rest of the iteration runs
   up to the next await or to the settlement. *)
FetchReturn ==
    /\ wpc = "fetching"
    /\ \E r \in FetchResults :
         LET it == Iteration(jobId, r)
         IN  /\ seen' = Append(seen, r)
             /\ progressCalls' = ProgressCallsAfter(progressCalls, hasOnProgress, r)
             /\ CASE it.kind = "return" ->
                       Settle(Resolved(it.value)) /\ UNCHANGED wakeAt
                  [] it.kind = "throw" ->
                       Settle(Rejected(it.error)) /\ UNCHANGED wakeAt
                  [] it.kind = "sleep" ->
                       /\ wpc' = "sleeping"
                       /\ wakeAt' = SleepUntil
                       /\ UNCHANGED <<outcome, settledAt>>
    /\ UNCHANGED <<now, jobId, maxWaitTime, pollInterval, hasOnProgress,
                   startTime, fetchStart, fetches>>

(* The setTimeout of the sleep fires; control is back at the loop head. *)
Wake ==
    /\ wpc = "sleeping"
    /\ now >= wakeAt
    /\ wpc' = "loop"
    /\ UNCHANGED <<now, jobId, maxWaitTime, pollInterval, hasOnProgress,
                   startTime, fetchStart, wakeAt, outcome, settledAt, fetches,
                   progressCalls, seen>>

(* The wall clock advances.  A call is made by MaxStart, a fetch takes at
   most MaxLatency, a due timer fires before the clock moves on, and the
   clock is followed for MaxLatency ticks after the settlement. *)
Tick ==
    /\ \/ wpc = "idle" /\ now < MaxStart
       \/ wpc = "fetching" /\ now < fetchStart + MaxLatency
       \/ wpc = "sleeping" /\ now < wakeAt
       \/ wpc = "done" /\ now < settledAt + MaxLatency
    /\ now' = now + 1
    /\ UNCHANGED <<wpc, jobId, maxWaitTime, pollInterval, hasOnProgress,
                   startTime, fetchStart, wakeAt, outcome, settledAt, fetches,
                   progressCalls, seen>>

PollIdle ==
    /\ now = 0
    /\ wpc = "idle"
    /\ startTime = 0
    /\ fetchStart = 0
    /\ wakeAt = 0
    /\ outcome = Pending
    /\ settledAt = 0
    /\ fetches = 0
    /\ progressCalls = 0
    /\ seen = <<>>

(* No fetchAPI call has been made. *)
FetchIdle ==
    /\ API_URL = Absent
    /\ NEXT_PUBLIC_API_URL = Absent
    /\ configFetches = 0
    /\ calls = <<>>

(* The history panel as mounted: closed, nothing listed, nothing armed. *)
HistoryIdle ==
    /\ isHistoryOpen = FALSE
    /\ loading = TRUE
    /\ conversations = <<>>
    /\ deleteConfirm = Absent
    /\ timers = 0
    /\ listLoads = 0
    /\ deletes = <<>>
    /\ stored = ConvIds
    /\ opened = 0
    /\ clicks = [id \in ConvIds |-> 0]
    /\ selected = Absent

InitPoll ==
    /\ PollIdle
    /\ FetchIdle
    /\ HistoryIdle
    /\ jobId \in JobIds
    /\ maxWaitTime \in 1..MaxWaitTime
    /\ pollInterval \in 1..MaxPollInterval
    /\ hasOnProgress \in BOOLEAN
    /\ messages = <<>>
    /\ currentPlan = Absent
    /\ sources = <<>>
    /\ conversationId = Absent
    /\ isLoading = FALSE
    /\ goal = Absent
    /\ initialGoalProcessed = FALSE
    /\ turns = <<>>
    /\ turnsStarted = 0
    /\ turnsDone = 0
    /\ loads = <<>>
    /\ loadsStarted = 0
    /\ settled = [turn |-> 0, outcome |-> Pending]
    /\ wasReset = FALSE
    /\ unhandled = FALSE

NextPoll ==
    \/ WaitForChatJob /\ UNCHANGED <<chatVars, fetchVars, historyVars>>
    \/ LoopFetch /\ UNCHANGED <<chatVars, fetchVars, historyVars>>
    \/ LoopTimeout /\ UNCHANGED <<chatVars, fetchVars, historyVars>>
    \/ FetchReturn /\ UNCHANGED <<chatVars, fetchVars, historyVars>>
    \/ Wake /\ UNCHANGED <<chatVars, fetchVars, historyVars>>
    \/ Tick /\ UNCHANGED <<chatVars, fetchVars, historyVars>>

SpecPoll == InitPoll /\ [][NextPoll]_vars

(* The scheduling the event loop gives one call: synchronous code runs on,
   a pending getChatJob returns or fails, a due timer fires and the clock
   advances.  Nothing obliges a caller to make the call. *)
FairPoll ==
    /\ WF_vars(LoopFetch /\ UNCHANGED <<chatVars, fetchVars, historyVars>>)
    /\ WF_vars(LoopTimeout /\ UNCHANGED <<chatVars, fetchVars, historyVars>>)
    /\ WF_vars(FetchReturn /\ UNCHANGED <<chatVars, fetchVars, historyVars>>)
    /\ WF_vars(Wake /\ UNCHANGED <<chatVars, fetchVars, historyVars>>)
    /\ WF_vars(Tick /\ UNCHANGED <<chatVars, fetchVars, historyVars>>)

SpecPollFair == SpecPoll /\ FairPoll

-----------------------------------------------------------------------------
(* ChatPageContent: the conversation state controller *)

MaxTurns == 2           \* handleSendMessage invocations followed
MaxLoads == 1           \* handleSelectConversation invocations followed

DefaultMaxWaitTime == 600000

Contents == {"goal"}

Message(role, content) == [role |-> role, content |-> content]

WELCOME_MESSAGE == Message("assistant", "Welcome to the OPAL Orchestrator!")

FallbackErrorContent ==
    "Sorry, I encountered an error processing your request. Please try again."

(* A bare Error thrown without a message. *)
PlainError ==
    [name |-> "Error", message |-> "", status |-> 0, details |-> Undefined]

(* What await sendChatMessage(...) can reject with. *)
SubmitFailures ==
    { FetchAPIError(422, "Invalid request"), PlainError }

(* The settlements of waitForChatJob(jobId, {onProgress}) with results drawn
   from rs: it resolves with a job's result, or rejects with one of the
   errors it throws or lets through. *)
PollSettlements(id, maxWait, rs) ==
    { Resolved(r) : r \in rs }
    \cup { Rejected(NoResultError) }
    \cup { Rejected(JobFailedError(id, Job("failed", Undefined, e))) :
             e \in JobErrorTexts }
    \cup { Rejected(TimeoutError(id, maxWait)) }
    \cup { Rejected(f.error) : f \in { g \in FetchFailures : ~IsNotFound(g.error) } }

(* The settlements a turn of the controller is followed through: every
   result, and three of the rejections (the controller reads only the
   message of the error). *)
TurnSettlements(id) ==
    { o \in PollSettlements(id, DefaultMaxWaitTime, Responses) :
        \/ o.kind = "resolved"
        \/ o.error \in { JobFailedError(id, Job("failed", Undefined, "boom")),
                         TimeoutError(id, DefaultMaxWaitTime),
                         NetworkError } }

(* The conversation records GET /conversations/{id} can return. *)
ConversationDetails ==
    { [messages |-> <<>>, plan |-> Absent, sources |-> <<>>],
      [messages |-> <<Message("user", "old goal"), Message("assistant", "old answer")>>,
       plan |-> CHOOSE p \in Plans : p # "P1",
       sources |-> <<Source("c2", "x")>>] }

(* One handleSendMessage invocation in flight: its number, where it stands
   (submitting, polling), the request it sent and the job it polls. *)
Turn(n, pc, content, conv, job) ==
    [n |-> n, pc |-> pc, content |-> content, conversation_id |-> conv,
     job_id |-> job]

(* The sequence s without its l-th element. *)
RemoveAt(s, l) == SubSeq(s, 1, l - 1) \o SubSeq(s, l + 1, Len(s))

(* Mutant: the new message is put in front of the transcript. *)
AppendMessageInFront(prev, m) == <<m>> \o prev

(* setMessages((prev) => [...prev, m]) *)
AppendMessage(prev, m) == Append(prev, m)

(* if (response.conversation_id) setConversationId(response.conversation_id) *)
MergeConversationId(prev, response) ==
    IF response.conversation_id # Absent /\ response.conversation_id # ""
    THEN response.conversation_id
    ELSE prev

(* Mutant: the plan is set from the response also when it carries none. *)
MergePlanAlways(prev, response) == response.plan

(* if (response.plan) setCurrentPlan(response.plan) *)
MergePlan(prev, response) ==
    IF response.plan # Absent THEN response.plan ELSE prev

(* The chunk_ids of a source list: new Set(prev.map((s) => s.chunk_id)) *)
ChunkIds(ss) == { ss[i].chunk_id : i \in 1..Len(ss) }

(* response.sources.filter((s) => !existing.has(s.chunk_id)) *)
RECURSIVE FilterNew(_, _)
FilterNew(ss, existing) ==
    IF ss = <<>> THEN <<>>
    ELSE IF Head(ss).chunk_id \in existing
         THEN FilterNew(Tail(ss), existing)
         ELSE <<Head(ss)>> \o FilterNew(Tail(ss), existing)

(* Mutant: the incoming sources are appended without the chunk_id filter. *)
MergeSourcesAppendAll(prev, response) == prev \o response.sources

(* if (response.sources && response.sources.length > 0) setSources(...) *)
MergeSources(prev, response) ==
    IF Len(response.sources) > 0
    THEN prev \o FilterNew(response.sources, ChunkIds(prev))
    ELSE prev

(* Mutant: the error's message is shown as it is, without the fallback. *)
ErrorContentNoFallback(e) == e.message

(* error?.message, or the fallback text when it is empty or missing *)
ErrorContent(e) == OrText(e.message, FallbackErrorContent)

(* Mutant: the failure is only logged, no message is appended. *)
CatchAppendNothing(prev, e) == prev

(* The catch block of handleSendMessage. *)
CatchAppend(prev, e) ==
    AppendMessage(prev, Message("assistant", ErrorContent(e)))

(* Whether an error e thrown inside the try block of handleSendMessage leaves
   the function: catch (error: any) takes every error and throws none. *)
SendMessageRethrows(e) == FALSE

(* Mutant: handleSendMessage ends without its finally block. *)
SendMessageFinallySkipped == isLoading' = isLoading

(* finally { setIsLoading(false) } of handleSendMessage *)
SendMessageFinally == isLoading' = FALSE

(* finally { setIsLoading(false) } of handleSelectConversation *)
SelectConversationFinally == isLoading' = FALSE

(* What await getConversation(id) can reject with. *)
LoadFailures == { FetchAPIError(404, "Conversation not found"), NetworkError }

(* Whether an error e thrown inside the try block of handleSelectConversation
   leaves the function: catch (error) logs it and throws none. *)
SelectConversationRethrows(e) == FALSE

(* handleSendMessage(content) up to its first await: the user message is
   appended, the loading flag set and the chat job submitted with the
   conversation id of the current render. *)
StartTurn(content) ==
    /\ messages' = AppendMessage(messages, Message("user", content))
    /\ turns' = Append(turns,
           Turn(turnsStarted + 1, "submitting", content, conversationId, Absent))
    /\ turnsStarted' = turnsStarted + 1
    /\ isLoading' = TRUE

(* The condition of the initial-goal effect. The effect runs with the render
   that makes the condition true, so every other handler and continuation
   waits for it. *)
GoalEffectDue ==
    goal # Absent /\ ~initialGoalProcessed /\ turnsStarted < MaxTurns

(* useEffect: the goal of the URL is sent as a message. *)
InitialGoalEffect ==
    /\ GoalEffectDue
    /\ initialGoalProcessed' = TRUE
    /\ StartTurn(goal)
    /\ UNCHANGED <<currentPlan, sources, conversationId, goal, turnsDone,
                   loads, loadsStarted, settled, wasReset,
                   unhandled>>

(* MessageInput.handleSubmit -> onSend -> handleSendMessage(content); the
   input is disabled while isLoading. *)
HandleSendMessage ==
    /\ ~GoalEffectDue
    /\ ~isLoading
    /\ turnsStarted < MaxTurns
    /\ \E content \in Contents : StartTurn(content)
    /\ UNCHANGED <<currentPlan, sources, conversationId, goal,
                   initialGoalProcessed, turnsDone, loads, loadsStarted,
                   settled, wasReset,
                   unhandled>>

(* await sendChatMessage resolves with { job_id }; waitForChatJob is called. *)
SubmitResolves(t) ==
    /\ ~GoalEffectDue
    /\ turns[t].pc = "submitting"
    /\ turns' = [turns EXCEPT ![t].pc = "polling",
                              ![t].job_id = JobIdOf(turns[t].n)]
    /\ UNCHANGED <<messages, currentPlan, sources, conversationId, isLoading,
                   goal, initialGoalProcessed, turnsStarted, turnsDone, loads,
                   loadsStarted, settled, wasReset,
                   unhandled>>

(* await sendChatMessage rejects: catch, then finally. *)
SubmitRejects(t) ==
    /\ ~GoalEffectDue
    /\ turns[t].pc = "submitting"
    /\ \E e \in SubmitFailures :
         /\ messages' = CatchAppend(messages, e)
         /\ settled' = [turn |-> turns[t].n, outcome |-> Rejected(e)]
         /\ unhandled' = (unhandled \/ SendMessageRethrows(e))
    /\ turns' = RemoveAt(turns, t)
    /\ turnsDone' = turnsDone + 1
    /\ SendMessageFinally
    /\ UNCHANGED <<currentPlan, sources, conversationId, goal,
                   initialGoalProcessed, turnsStarted, loads, loadsStarted,
                   wasReset>>

(* await waitForChatJob settles: the result is merged, or the catch block
   runs; then finally. *)
PollSettles(t) ==
    /\ ~GoalEffectDue
    /\ turns[t].pc = "polling"
    /\ \E o \in TurnSettlements(turns[t].job_id) :
         /\ settled' = [turn |-> turns[t].n, outcome |-> o]
         /\ IF o.kind = "resolved"
            THEN /\ conversationId' = MergeConversationId(conversationId, o.value)
                 /\ messages' = AppendMessage(messages,
                                    Message("assistant", o.value.message))
                 /\ currentPlan' = MergePlan(currentPlan, o.value)
                 /\ sources' = MergeSources(sources, o.value)
                 /\ UNCHANGED unhandled
            ELSE /\ messages' = CatchAppend(messages, o.error)
                 /\ unhandled' = (unhandled \/ SendMessageRethrows(o.error))
                 /\ UNCHANGED <<conversationId, currentPlan, sources>>
    /\ turns' = RemoveAt(turns, t)
    /\ turnsDone' = turnsDone + 1
    /\ SendMessageFinally
    /\ UNCHANGED <<goal, initialGoalProcessed, turnsStarted, loads,
                   loadsStarted, wasReset>>

(* Mutant: the new chat keeps the conversation id. *)
HandleNewChatKeepsConversation ==
    /\ ~GoalEffectDue
    /\ messages' = <<WELCOME_MESSAGE>>
    /\ currentPlan' = Absent
    /\ sources' = <<>>
    /\ conversationId' = conversationId
    /\ initialGoalProcessed' = FALSE
    /\ wasReset' = TRUE
    /\ UNCHANGED <<isLoading, goal, turns, turnsStarted, turnsDone, loads,
                   loadsStarted, settled,
                   unhandled>>

(* handleNewChat *)
HandleNewChat ==
    /\ ~GoalEffectDue
    /\ messages' = <<WELCOME_MESSAGE>>
    /\ currentPlan' = Absent
    /\ sources' = <<>>
    /\ conversationId' = Absent
    /\ initialGoalProcessed' = FALSE
    /\ wasReset' = TRUE
    /\ UNCHANGED <<isLoading, goal, turns, turnsStarted, turnsDone, loads,
                   loadsStarted, settled,
                   unhandled>>

(* handleSelectConversation(id), up to its await; max bounds the number of
   invocations followed. *)
SelectConversation(id, max) ==
    /\ ~GoalEffectDue
    /\ loadsStarted < max
    /\ loads' = Append(loads, id)
    /\ loadsStarted' = loadsStarted + 1
    /\ isLoading' = TRUE
    /\ UNCHANGED <<messages, currentPlan, sources, conversationId, goal,
                   initialGoalProcessed, turns, turnsStarted, turnsDone,
                   settled, wasReset,
                   unhandled>>

HandleSelectConversation == \E id \in ConvIds : SelectConversation(id, MaxLoads)

(* Mutant: the loaded conversation keeps the sources shown before. *)
LoadResolvesKeepsSources(l) ==
    /\ ~GoalEffectDue
    /\ \E c \in ConversationDetails :
         /\ messages' = (IF Len(c.messages) > 0 THEN c.messages
                         ELSE <<WELCOME_MESSAGE>>)
         /\ currentPlan' = c.plan
         /\ sources' = sources
    /\ conversationId' = loads[l]
    /\ loads' = RemoveAt(loads, l)
    /\ SelectConversationFinally
    /\ wasReset' = TRUE
    /\ UNCHANGED <<goal, initialGoalProcessed, turns, turnsStarted, turnsDone,
                   loadsStarted, settled,
                   unhandled>>

(* await getConversation(id) resolves: the state is replaced; then finally. *)
LoadResolves(l) ==
    /\ ~GoalEffectDue
    /\ \E c \in ConversationDetails :
         /\ messages' = (IF Len(c.messages) > 0 THEN c.messages
                         ELSE <<WELCOME_MESSAGE>>)
         /\ currentPlan' = c.plan
         /\ sources' = c.sources
    /\ conversationId' = loads[l]
    /\ loads' = RemoveAt(loads, l)
    /\ SelectConversationFinally
    /\ wasReset' = TRUE
    /\ UNCHANGED <<goal, initialGoalProcessed, turns, turnsStarted, turnsDone,
                   loadsStarted, settled,
                   unhandled>>

(* Mutant: a failed load reports its error in the transcript. *)
LoadRejectsAppendsError(l) ==
    /\ ~GoalEffectDue
    /\ loads' = RemoveAt(loads, l)
    /\ \E e \in LoadFailures :
         unhandled' = (unhandled \/ SelectConversationRethrows(e))
    /\ SelectConversationFinally
    /\ messages' = CatchAppend(messages, NetworkError)
    /\ UNCHANGED <<currentPlan, sources, conversationId, goal,
                   initialGoalProcessed, turns, turnsStarted, turnsDone,
                   loadsStarted, settled, wasReset>>

(* await getConversation(id) rejects: the error is logged; then finally. *)
LoadRejects(l) ==
    /\ ~GoalEffectDue
    /\ loads' = RemoveAt(loads, l)
    /\ \E e \in LoadFailures :
         unhandled' = (unhandled \/ SelectConversationRethrows(e))
    /\ SelectConversationFinally
    /\ UNCHANGED <<messages, currentPlan, sources, conversationId, goal,
                   initialGoalProcessed, turns, turnsStarted, turnsDone,
                   loadsStarted, settled, wasReset>>

ChatInit ==
    /\ messages = <<WELCOME_MESSAGE>>
    /\ currentPlan = Absent
    /\ sources = <<>>
    /\ conversationId = Absent
    /\ isLoading = FALSE
    /\ goal \in Contents \cup {Absent}
    /\ initialGoalProcessed = FALSE
    /\ turns = <<>>
    /\ turnsStarted = 0
    /\ turnsDone = 0
    /\ loads = <<>>
    /\ loadsStarted = 0
    /\ settled = [turn |-> 0, outcome |-> Pending]
    /\ wasReset = FALSE
    /\ unhandled = FALSE

Init ==
    /\ ChatInit
    /\ PollIdle
    /\ FetchIdle
    /\ HistoryIdle
    /\ jobId = "j1"
    /\ maxWaitTime = 1
    /\ pollInterval = 1
    /\ hasOnProgress = FALSE

Next ==
    \/ InitialGoalEffect /\ UNCHANGED <<pollVars, fetchVars, historyVars>>
    \/ HandleSendMessage /\ UNCHANGED <<pollVars, fetchVars, historyVars>>
    \/ \E t \in DOMAIN turns : SubmitResolves(t) /\ UNCHANGED <<pollVars, fetchVars, historyVars>>
    \/ \E t \in DOMAIN turns : SubmitRejects(t) /\ UNCHANGED <<pollVars, fetchVars, historyVars>>
    \/ \E t \in DOMAIN turns : PollSettles(t) /\ UNCHANGED <<pollVars, fetchVars, historyVars>>
    \/ HandleNewChat /\ UNCHANGED <<pollVars, fetchVars, historyVars>>
    \/ HandleSelectConversation /\ UNCHANGED <<pollVars, fetchVars, historyVars>>
    \/ \E l \in DOMAIN loads : LoadResolves(l) /\ UNCHANGED <<pollVars, fetchVars, historyVars>>
    \/ \E l \in DOMAIN loads : LoadRejects(l) /\ UNCHANGED <<pollVars, fetchVars, historyVars>>

Spec == Init /\ [][Next]_vars

-----------------------------------------------------------------------------
(* fetchAPI: the transport layer *)

MaxCalls == 2           \* fetchAPI calls followed

(* JavaScript values of the detail field of an error body: missing, a string,
   an array of n objects (the validation errors of a 422). *)
JsUndefined == [t |-> "undefined"]
JsString(v) == [t |-> "string", v |-> v]
JsArray(n) == [t |-> "array", n |-> n]

DetailValues == { JsUndefined, JsString(""), JsString("Not found"), JsArray(1) }

(* x || ... : whether x is truthy *)
Truthy(x) ==
    CASE x.t = "string" -> x.v # ""
      [] x.t = "array" -> TRUE
      [] OTHER -> FALSE

(* String(x), which super(message) applies to its argument *)
JsToString(x) ==
    CASE x.t = "string" -> x.v
      [] x.t = "array" -> (IF x.n = 0 THEN ""
                           ELSE IF x.n = 1 THEN "[object Object]"
                           ELSE "[object Object],[object Object]")
      [] OTHER -> ""

(* Response bodies: a JSON object with or without detail, JSON null, and a
   body response.json() rejects. *)
JsonObject(detail) == [json |-> "object", detail |-> detail]
JsonNull == [json |-> "null"]
InvalidJson == [json |-> "invalid"]

Bodies == { JsonObject(d) : d \in DetailValues } \cup { JsonNull, InvalidJson }

Statuses == { 200, 201, 404, 422, 500 }

HttpResponse(status, body) == [status |-> status, body |-> body]

(* The responses followed: of each status, the bodies that take fetchAPI
   through its different paths. *)
HttpResponses ==
    { r \in { HttpResponse(st, b) : st \in Statuses, b \in Bodies } :
        \/ r.status = 200 /\ r.body \in { JsonObject(JsUndefined), JsonNull, InvalidJson }
        \/ r.status = 201 /\ r.body = JsonObject(JsUndefined)
        \/ r.status = 404 /\ r.body \in { JsonObject(JsString("Not found")),
                                          JsonObject(JsUndefined), InvalidJson }
        \/ r.status = 422 /\ r.body \in { JsonObject(JsArray(1)), JsonObject(JsString("")) }
        \/ r.status = 500 /\ r.body \in { JsonNull, InvalidJson } }

(* response.ok *)
ResponseOk(r) == r.status >= 200 /\ r.status <= 299

(* What response.json() rejects with on an invalid body. *)
SyntaxError ==
    [name |-> "SyntaxError", message |-> "Unexpected token", status |-> 0,
     details |-> Undefined]

(* What reading error.detail throws when the error body is null. *)
NullTypeError ==
    [name |-> "TypeError", message |-> "Cannot read properties of null",
     status |-> 0, details |-> Undefined]

(* await response.json().catch(() => ({})) *)
ErrorBody(r) ==
    IF r.body = InvalidJson THEN JsonObject(JsUndefined) ELSE r.body

(* fetchAPI from the response of fetch(url, ...) on. *)
FetchAPIOutcome(r) ==
    IF ~ResponseOk(r)
    THEN LET error == ErrorBody(r)
         IN  IF error = JsonNull
             THEN Rejected(NullTypeError)
             ELSE Rejected(APIError(IF Truthy(error.detail)
                                    THEN JsToString(error.detail)
                                    ELSE ApiStatusText(r.status),
                                    r.status,
                                    error))
    ELSE IF r.body = InvalidJson
         THEN Rejected(SyntaxError)
         ELSE Resolved(r.body)

(* The outcomes of fetch('/config.json') and of reading it. *)
ConfigResults == { "network error", "not ok", "invalid json", "no apiUrl", "apiUrl" }

ConfigUrl == "http://config/api"
EnvUrls == { Absent, "http://env/api" }
Endpoint == "/chat"

(* Mutant: a config.json without apiUrl falls back to the environment default
   like a failure does. *)
InitializeAPIUrlEnvFirst(cfg, env) ==
    IF cfg = "apiUrl" THEN ConfigUrl ELSE OrText(env, "/api")

(* initializeAPIUrl *)
InitializeAPIUrl(cfg, env) ==
    IF cfg = "apiUrl" THEN ConfigUrl
    ELSE IF cfg = "no apiUrl" THEN "/api"
    ELSE OrText(env, "/api")

(* A fetchAPI call: where it stands, what its initializeAPIUrl found (when it
   ran one), the url it requests, the response and the settlement. *)
Call(pc, url) ==
    [pc |-> pc, config |-> Absent, url |-> url, response |-> Undefined,
     result |-> Pending]

(* fetchAPI(endpoint, options) up to its first await: initializeAPIUrl is
   called when API_URL is undefined, fetch(url) otherwise. *)
FetchAPICall ==
    /\ Len(calls) < MaxCalls
    /\ IF API_URL = Absent
       THEN /\ calls' = Append(calls, Call("init", Absent))
            /\ configFetches' = configFetches + 1
       ELSE /\ calls' = Append(calls, Call("fetch", API_URL \o Endpoint))
            /\ UNCHANGED configFetches
    /\ UNCHANGED <<API_URL, NEXT_PUBLIC_API_URL>>

(* API_URL = await initializeAPIUrl(); then fetch(url) is issued. *)
InitializeAPIUrlReturns(c) ==
    /\ calls[c].pc = "init"
    /\ \E cfg \in ConfigResults :
         LET url == InitializeAPIUrl(cfg, NEXT_PUBLIC_API_URL)
         IN  /\ API_URL' = url
             /\ calls' = [calls EXCEPT ![c].pc = "fetch",
                                       ![c].config = cfg,
                                       ![c].url = url \o Endpoint]
    /\ UNCHANGED <<NEXT_PUBLIC_API_URL, configFetches>>

(* await fetch(url, ...) resolves with a response: the rest of fetchAPI. *)
FetchResponds(c) ==
    /\ calls[c].pc = "fetch"
    /\ \E r \in HttpResponses :
         calls' = [calls EXCEPT ![c].pc = "done",
                                ![c].response = r,
                                ![c].result = FetchAPIOutcome(r)]
    /\ UNCHANGED <<API_URL, NEXT_PUBLIC_API_URL, configFetches>>

(* await fetch(url, ...) rejects: the network error leaves fetchAPI. *)
FetchRejects(c) ==
    /\ calls[c].pc = "fetch"
    /\ calls' = [calls EXCEPT ![c].pc = "done",
                              ![c].result = Rejected(NetworkError)]
    /\ UNCHANGED <<API_URL, NEXT_PUBLIC_API_URL, configFetches>>

(* The controller before any of its handlers has run. *)
ChatIdle ==
    /\ ChatInit
    /\ goal = Absent

InitFetch ==
    /\ API_URL = Absent
    /\ NEXT_PUBLIC_API_URL \in EnvUrls
    /\ configFetches = 0
    /\ calls = <<>>
    /\ ChatIdle
    /\ PollIdle
    /\ HistoryIdle
    /\ jobId = "j1"
    /\ maxWaitTime = 1
    /\ pollInterval = 1
    /\ hasOnProgress = FALSE

NextFetch ==
    \/ FetchAPICall /\ UNCHANGED <<pollVars, chatVars, historyVars>>
    \/ \E c \in DOMAIN calls : InitializeAPIUrlReturns(c) /\ UNCHANGED <<pollVars, chatVars, historyVars>>
    \/ \E c \in DOMAIN calls : FetchResponds(c) /\ UNCHANGED <<pollVars, chatVars, historyVars>>
    \/ \E c \in DOMAIN calls : FetchRejects(c) /\ UNCHANGED <<pollVars, chatVars, historyVars>>

SpecFetch == InitFetch /\ [][NextFetch]_vars

-----------------------------------------------------------------------------
(* ChatHistory: the history panel *)

MaxOpens == 2           \* times the panel is opened
MaxOverlap == 2         \* conversations selected in the panel
MaxClicks == 3          \* clicks on delete buttons

(* The order in which the backend lists conversations. *)
ConvOrder == <<"A", "B">>

(* await getConversations(): the conversations held, as a list. *)
ListOf(held) == SelectSeq(ConvOrder, LAMBDA c : c \in held)

(* The ids of the entries rendered. *)
Listed == { conversations[i] : i \in DOMAIN conversations }

(* The list is rendered, with its buttons, when the panel is open and not
   loading. *)
ListShown == isHistoryOpen /\ ~loading

(* One handleDelete invocation awaiting deleteConversation(id), with the
   currentConversationId of the render it was created in. *)
Delete(id, current) == [id |-> id, currentConversationId |-> current]

TotalClicks == clicks["A"] + clicks["B"]

(* The History button: setIsHistoryOpen(true); the effect on isOpen calls
   loadConversations, which runs to its await. *)
OpenHistory ==
    /\ ~isHistoryOpen
    /\ opened < MaxOpens
    /\ isHistoryOpen' = TRUE
    /\ opened' = opened + 1
    /\ loading' = TRUE
    /\ listLoads' = listLoads + 1
    /\ UNCHANGED <<conversations, deleteConfirm, timers, deletes, stored,
                   clicks, selected>>
    /\ UNCHANGED chatVars

(* The close button of the panel, or its backdrop: onClose. *)
CloseHistory ==
    /\ isHistoryOpen
    /\ isHistoryOpen' = FALSE
    /\ UNCHANGED <<loading, conversations, deleteConfirm, timers, listLoads,
                   deletes, stored, opened, clicks, selected>>
    /\ UNCHANGED chatVars

(* await getConversations() resolves: the list is replaced; then finally. *)
GetConversationsResolves ==
    /\ listLoads > 0
    /\ conversations' = ListOf(stored)
    /\ loading' = FALSE
    /\ listLoads' = listLoads - 1
    /\ UNCHANGED <<isHistoryOpen, deleteConfirm, timers, deletes, stored,
                   opened, clicks, selected>>
    /\ UNCHANGED chatVars

(* await getConversations() rejects: the error is logged; then finally. *)
GetConversationsRejects ==
    /\ listLoads > 0
    /\ loading' = FALSE
    /\ listLoads' = listLoads - 1
    /\ UNCHANGED <<isHistoryOpen, conversations, deleteConfirm, timers,
                   deletes, stored, opened, clicks, selected>>
    /\ UNCHANGED chatVars

(* A click on an entry: onSelectConversation(conv.id), onClose(). *)
ClickConversation ==
    /\ ListShown
    /\ \E id \in Listed :
         /\ SelectConversation(id, MaxOverlap)
         /\ selected' = id
    /\ isHistoryOpen' = FALSE
    /\ UNCHANGED <<loading, conversations, deleteConfirm, timers, listLoads,
                   deletes, stored, opened, clicks>>

(* The New Chat button of the panel: onNewChat(), onClose(). *)
PanelNewChat ==
    /\ isHistoryOpen
    /\ HandleNewChat
    /\ isHistoryOpen' = FALSE
    /\ UNCHANGED <<loading, conversations, deleteConfirm, timers, listLoads,
                   deletes, stored, opened, clicks, selected>>

(* Mutant: every click on a delete button counts as confirmed. *)
ArmedAlways(id) == TRUE

(* if (deleteConfirm === id) *)
Armed(id) == deleteConfirm = id

(* A click on the delete button of entry id: handleDelete(id, e) up to its
   await, or its else branch. *)
HandleDelete(id) ==
    /\ ListShown
    /\ id \in Listed
    /\ TotalClicks < MaxClicks
    /\ clicks' = [clicks EXCEPT ![id] = @ + 1]
    /\ IF Armed(id)
       THEN /\ deletes' = Append(deletes, Delete(id, conversationId))
            /\ UNCHANGED <<deleteConfirm, timers>>
       ELSE /\ deleteConfirm' = id
            /\ timers' = timers + 1
            /\ UNCHANGED deletes
    /\ UNCHANGED <<isHistoryOpen, loading, conversations, listLoads, stored,
                   opened, selected>>
    /\ UNCHANGED chatVars

(* setTimeout(() => setDeleteConfirm(null), 3000) fires. *)
TimerFires ==
    /\ timers > 0
    /\ timers' = timers - 1
    /\ deleteConfirm' = Absent
    /\ UNCHANGED <<isHistoryOpen, loading, conversations, listLoads, deletes,
                   stored, opened, clicks, selected>>
    /\ UNCHANGED chatVars

(* await deleteConversation(id) resolves: the entry is filtered out, the
   confirmation is cleared, and onNewChat() is called when the conversation
   was the current one. *)
DeleteResolves(d) ==
    /\ stored' = stored \ {deletes[d].id}
    /\ conversations' = SelectSeq(conversations, LAMBDA c : c # deletes[d].id)
    /\ deleteConfirm' = Absent
    /\ deletes' = RemoveAt(deletes, d)
    /\ IF deletes[d].currentConversationId = deletes[d].id
       THEN HandleNewChat
       ELSE UNCHANGED chatVars
    /\ UNCHANGED <<isHistoryOpen, loading, timers, listLoads, opened, clicks,
                   selected>>

(* await deleteConversation(id) rejects: the error is logged.  The backend
   may or may not have carried the request out. *)
DeleteRejects(d) ==
    /\ stored' \in {stored, stored \ {deletes[d].id}}
    /\ deletes' = RemoveAt(deletes, d)
    /\ UNCHANGED <<isHistoryOpen, loading, conversations, deleteConfirm,
                   timers, listLoads, opened, clicks, selected>>
    /\ UNCHANGED chatVars

InitHistory ==
    /\ ChatIdle
    /\ PollIdle
    /\ FetchIdle
    /\ HistoryIdle
    /\ jobId = "j1"
    /\ maxWaitTime = 1
    /\ pollInterval = 1
    /\ hasOnProgress = FALSE

NextHistory ==
    \/ OpenHistory /\ UNCHANGED <<pollVars, fetchVars>>
    \/ CloseHistory /\ UNCHANGED <<pollVars, fetchVars>>
    \/ GetConversationsResolves /\ UNCHANGED <<pollVars, fetchVars>>
    \/ GetConversationsRejects /\ UNCHANGED <<pollVars, fetchVars>>
    \/ ClickConversation /\ UNCHANGED <<pollVars, fetchVars>>
    \/ \E l \in DOMAIN loads : LoadResolves(l) /\ UNCHANGED <<pollVars, fetchVars, historyVars>>
    \/ \E l \in DOMAIN loads : LoadRejects(l) /\ UNCHANGED <<pollVars, fetchVars, historyVars>>
    \/ ~isHistoryOpen /\ HandleNewChat /\ UNCHANGED <<pollVars, fetchVars, historyVars>>
    \/ PanelNewChat /\ UNCHANGED <<pollVars, fetchVars>>
    \/ \E id \in ConvIds : HandleDelete(id) /\ UNCHANGED <<pollVars, fetchVars>>
    \/ TimerFires /\ UNCHANGED <<pollVars, fetchVars>>
    \/ \E d \in DOMAIN deletes : DeleteResolves(d) /\ UNCHANGED <<pollVars, fetchVars>>
    \/ \E d \in DOMAIN deletes : DeleteRejects(d) /\ UNCHANGED <<pollVars, fetchVars>>

SpecHistory == InitHistory /\ [][NextHistory]_vars

-----------------------------------------------------------------------------
(* Properties of waitForChatJob, checked under SpecPoll. *)

Last(s) == s[Len(s)]
Front(s) == SubSeq(s, 1, Len(s) - 1)

IsSnapshot(r) == r.kind = "job"
NonTerminal(r) == r.kind = "job" /\ r.status \in {"pending", "processing"}
Terminal(r) == r.kind = "job" /\ r.status \in {"completed", "failed"}
Is404(r) == r.kind = "error" /\ r.error.name = "APIError" /\ r.error.status = 404
CompletedWith(r) == r.kind = "job" /\ r.status = "completed" /\ r.result # Undefined
CompletedEmpty(r) == r.kind = "job" /\ r.status = "completed" /\ r.result = Undefined
Failed(r) == r.kind = "job" /\ r.status = "failed"

(* Only 404 failures and pending/processing snapshots. *)
AllBenign(s) == \A i \in 1..Len(s) : NonTerminal(s[i]) \/ Is404(s[i])

Count(s, P(_)) == Cardinality({ i \in 1..Len(s) : P(s[i]) })

(* C1: after any number of 404 failures and pending/processing snapshots, a
   completed snapshot with result R makes the call resolve with exactly R,
   and no 404 is ever what the call rejects with. *)
C1Theorem ==
    /\ (seen # <<>> /\ CompletedWith(Last(seen)) /\ AllBenign(Front(seen)))
          => (wpc = "done" /\ outcome = Resolved(Last(seen).result))
    /\ outcome.kind = "rejected" => outcome.error.status # 404

C1Witness ==
    /\ Len(seen) = 3
    /\ Is404(seen[1]) /\ Is404(seen[2]) /\ CompletedWith(seen[3])
    /\ outcome = Resolved(seen[3].result)

(* C2: completed without a result rejects with status 500 and without
   details, while a failed job rejects with details {job_id, error}: the two
   rejections differ for every error text of the failed job. *)
C2Theorem ==
    seen # <<>> =>
      /\ CompletedEmpty(Last(seen))
            => /\ outcome.kind = "rejected"
               /\ outcome.error.status = 500
               /\ outcome.error.details = Undefined
      /\ Failed(Last(seen))
            => /\ outcome.kind = "rejected"
               /\ outcome.error.details # Undefined

C2Witness ==
    /\ seen # <<>>
    /\ CompletedEmpty(Last(seen))
    /\ outcome.kind = "rejected"
    /\ outcome.error.status = 500

(* C3: a failed snapshot rejects at once, with no further fetch; the message
   is the job's error text, or "Chat job failed" when it has none, and the
   details are {job_id, error}. *)
C3Theorem ==
    (seen # <<>> /\ Failed(Last(seen))) =>
      LET e == Last(seen).error
      IN  /\ wpc = "done"
          /\ fetches = Len(seen)
          /\ outcome.kind = "rejected"
          /\ outcome.error.name = "APIError"
          /\ outcome.error.message =
                (IF e \in {Absent, ""} THEN "Chat job failed" ELSE e)
          /\ outcome.error.details = [job_id |-> jobId, error |-> e]

C3Witness ==
    /\ Len(seen) = 2
    /\ Failed(seen[2]) /\ seen[2].error = "boom"
    /\ outcome.kind = "rejected" /\ outcome.error.message = "boom"
    /\ now > settledAt

(* C4: a fetch failing with 404 leads to a sleep of pollInterval and then
   back to the loop head; a fetch failing otherwise rejects with that very
   error at once, with no fetch and no sleep. *)
C4Theorem ==
    [][ /\ (wpc = "fetching" /\ wpc' # "fetching" /\ Last(seen').kind = "error")
           => IF Is404(Last(seen'))
              THEN /\ wpc' = "sleeping"
                   /\ wakeAt' = now + pollInterval
                   /\ outcome' = Pending
                   /\ fetches' = fetches
              ELSE /\ wpc' = "done"
                   /\ outcome' = Rejected(Last(seen').error)
                   /\ settledAt' = now
                   /\ fetches' = fetches
        /\ (wpc = "sleeping" /\ wpc' # "sleeping")
           => (wpc' = "loop" /\ now >= wakeAt /\ fetches' = fetches)
      ]_vars

C4Witness ==
    /\ wpc = "fetching"
    /\ fetches = 2
    /\ Is404(seen[1])
    /\ now = fetchStart
    /\ fetchStart >= startTime + pollInterval

(* C5: when every fetch up to the deadline gave a pending/processing snapshot
   or a 404, the call rejects with the 504 timeout error carrying job_id and
   max_wait_time; a 404 is never what it rejects with. *)
C5Theorem ==
    (wpc = "done" /\ AllBenign(seen)) =>
        outcome = Rejected([name |-> "APIError",
                            message |-> "Chat job polling timeout",
                            status |-> 504,
                            details |-> [job_id |-> jobId,
                                         max_wait_time |-> maxWaitTime]])

C5Witness ==
    /\ wpc = "done"
    /\ Len(seen) >= 2
    /\ \A i \in 1..Len(seen) : Is404(seen[i])
    /\ outcome.kind = "rejected" /\ outcome.error.status = 504

(* C6: the call resolves within maxWaitTime + pollInterval or rejects with
   the timeout error, and never resolves with a result after
   startTime + maxWaitTime. *)
C6Claim ==
    wpc = "done" =>
      /\ outcome.kind = "resolved" => settledAt - startTime <= maxWaitTime
      /\ \/ settledAt - startTime <= maxWaitTime + pollInterval
         \/ (outcome.kind = "rejected" /\ outcome.error.status = 504)

(* C7 as claimed: onProgress is invoked for the pending/processing snapshots
   only, not for the terminal one. *)
C7Claim ==
    hasOnProgress => progressCalls = Count(seen, NonTerminal)

(* C7: onProgress, when supplied, is invoked once for every snapshot fetched,
   the terminal one included: three times for [pending, processing,
   completed(R)], which resolves with R, and once when the first fetch is
   already terminal. *)
C7Theorem ==
    /\ progressCalls = (IF hasOnProgress THEN Count(seen, IsSnapshot) ELSE 0)
    /\ (/\ hasOnProgress
        /\ Len(seen) = 3
        /\ seen[1].kind = "job" /\ seen[1].status = "pending"
        /\ seen[2].kind = "job" /\ seen[2].status = "processing"
        /\ CompletedWith(seen[3]))
          => (progressCalls = 3 /\ outcome = Resolved(seen[3].result))
    /\ (hasOnProgress /\ Len(seen) = 1 /\ Terminal(seen[1]))
          => progressCalls = 1

C7Witness ==
    /\ hasOnProgress
    /\ Len(seen) = 3
    /\ seen[1].kind = "job" /\ seen[1].status = "pending"
    /\ seen[2].kind = "job" /\ seen[2].status = "processing"
    /\ CompletedWith(seen[3])
    /\ progressCalls = 3
    /\ outcome.kind = "resolved"

(* C8: once the promise has settled, no onProgress call and no status fetch
   follows, and the settlement does not change. *)
C8Theorem ==
    [][ outcome # Pending =>
          /\ fetches' = fetches
          /\ progressCalls' = progressCalls
          /\ seen' = seen
          /\ outcome' = outcome ]_vars

C8Witness ==
    /\ outcome # Pending
    /\ now > settledAt
    /\ fetches >= 2
    /\ progressCalls >= 2

-----------------------------------------------------------------------------
(* Properties of the conversation state controller, checked under Spec. *)

HasRole(role, m) == m.role = role
IsUser(m) == HasRole("user", m)
IsAssistant(m) == HasRole("assistant", m)

(* Some turn completes in this step. *)
TurnCompletes == turnsDone' = turnsDone + 1

(* A turn merges the result its poll resolved with in this step. *)
MergeStep == TurnCompletes /\ settled'.outcome.kind = "resolved"

(* C9: as long as the transcript has not been replaced by a new chat or a
   loaded conversation, every completed turn, successful or failed, has added
   exactly two messages, one user and one assistant message, and every turn
   still in flight has added its user message only. *)
C9Theorem ==
    ~wasReset =>
      /\ Len(messages) = 1 + 2 * turnsDone + (turnsStarted - turnsDone)
      /\ Count(messages, IsUser) = turnsStarted
      /\ Count(messages, IsAssistant) = 1 + turnsDone

C9Witness ==
    /\ ~wasReset
    /\ turnsStarted = 2 /\ turnsDone = 2
    /\ Len(messages) = 5
    /\ messages[3] = Message("assistant", "answer")
    /\ messages[5] = Message("assistant", "Chat job polling timeout")
    /\ settled.outcome.kind = "rejected"

(* C10: the step in which a turn merges its result sets the current plan to
   the result's plan when it carries one and leaves the current plan as it
   was when it carries none; no other step of a turn changes the plan. *)
C10Theorem ==
    [][ /\ MergeStep
              => currentPlan' =
                   (IF settled'.outcome.value.plan # Absent
                    THEN settled'.outcome.value.plan
                    ELSE currentPlan)
        /\ (turns' # turns /\ ~MergeStep)
              => currentPlan' = currentPlan ]_vars

C10Witness ==
    /\ turnsDone = 2
    /\ settled.turn = 2
    /\ settled.outcome.kind = "resolved"
    /\ settled.outcome.value.plan = Absent
    /\ currentPlan = "P1"
    /\ ~wasReset

(* A turn runs its catch block in this step: its submission or its poll
   rejected. *)
FailStep == TurnCompletes /\ settled'.outcome.kind = "rejected"

(* C11: the step in which a turn merges its result keeps the accumulated
   sources as they were, in content and order, and appends exactly the
   incoming sources whose chunk_id was not present, in their order; when
   every incoming chunk_id was present the list is unchanged. *)
C11Theorem ==
    [][ MergeStep =>
          LET incoming == settled'.outcome.value.sources
              present == { sources[i].chunk_id : i \in 1..Len(sources) }
              IsNew(s) == s.chunk_id \notin present
          IN  /\ Len(sources') >= Len(sources)
              /\ SubSeq(sources', 1, Len(sources)) = sources
              /\ SubSeq(sources', Len(sources) + 1, Len(sources'))
                    = SelectSeq(incoming, IsNew)
              /\ (\A i \in 1..Len(incoming) : ~IsNew(incoming[i]))
                    => sources' = sources ]_vars

C11Witness ==
    /\ ~wasReset
    /\ turnsDone = 2
    /\ settled.outcome.kind = "resolved"
    /\ settled.outcome.value.sources = <<Source("c1", "y"), Source("c2", "x")>>
    /\ sources = <<Source("c1", "x"), Source("c2", "x")>>

(* C12: the step in which a turn's submission or poll fails appends exactly
   one assistant message, whose content is the error's message or the
   fallback text when the error has none, leaves the earlier messages, the
   plan, the sources and the conversation id as they were, and no error
   leaves handleSendMessage. *)
C12Theorem ==
    [][ FailStep =>
          LET e == settled'.outcome.error
              text == IF e.message \in {Absent, ""}
                      THEN FallbackErrorContent ELSE e.message
          IN  /\ messages' = Append(messages, Message("assistant", text))
              /\ currentPlan' = currentPlan
              /\ sources' = sources
              /\ conversationId' = conversationId
              /\ ~unhandled' ]_vars

C12Witness ==
    /\ ~wasReset
    /\ turnsDone = 2
    /\ settled.outcome.kind = "rejected"
    /\ settled.outcome.error.message = ""
    /\ Last(messages) = Message("assistant", FallbackErrorContent)
    /\ currentPlan = "P1"
    /\ sources # <<>>
    /\ conversationId = "A"
    /\ ~unhandled

(* C13: a turn sets the loading flag when it starts and clears it in the step
   in which its submission or its poll settles, whatever the outcome; the
   flag is never set while no turn and no conversation load is in flight. *)
C13Theorem ==
    /\ []((turns = <<>> /\ loads = <<>>) => ~isLoading)
    /\ [][ /\ turnsStarted' = turnsStarted + 1 => isLoading'
           /\ TurnCompletes => ~isLoading' ]_vars

C13Witness ==
    /\ turnsDone = 2
    /\ settled.turn = 2
    /\ settled.outcome.kind = "rejected"
    /\ turns = <<>> /\ loads = <<>>
    /\ ~isLoading

(* The state handleNewChat leaves: the welcome message alone, no plan, no
   sources, no conversation id. *)
InResetState ==
    /\ messages = <<WELCOME_MESSAGE>>
    /\ currentPlan = Absent
    /\ sources = <<>>
    /\ conversationId = Absent

(* C14 as claimed: after a new chat, a turn that was in flight at the reset
   changes nothing when its poll settles; the state stays the one
   handleNewChat left.  (In the reset state every turn in flight was started
   before the reset: a turn started later has appended its user message.) *)
C14Claim ==
    [][ (wasReset /\ InResetState /\ TurnCompletes) => InResetState' ]_vars

(* C15 as claimed: a turn whose captured conversation id differs from the
   current one when its poll resolves has its result discarded: messages,
   plan, sources and conversation id stay as they are. *)
C15Claim ==
    [][ \A t \in DOMAIN turns :
          ( /\ MergeStep
            /\ settled'.turn = turns[t].n
            /\ turns[t].conversation_id # conversationId )
          => /\ messages' = messages
             /\ currentPlan' = currentPlan
             /\ sources' = sources
             /\ conversationId' = conversationId ]_vars

(* C16 as claimed: at most one turn is in flight in every reachable state. *)
C16Claim == Len(turns) <= 1

(* C17: handleNewChat can run whenever no effect is due, also with turns and
   loads in flight, and every step of it leaves the welcome message alone, no
   plan, no sources and no conversation id. *)
C17Theorem ==
    /\ [](~GoalEffectDue => ENABLED HandleNewChat)
    /\ [][ HandleNewChat => InResetState' ]_vars

C17Witness ==
    /\ InResetState
    /\ wasReset
    /\ turnsDone = 1
    /\ settled.outcome.kind = "resolved"
    /\ settled.outcome.value.plan = "P1"
    /\ settled.outcome.value.conversation_id = "A"
    /\ settled.outcome.value.sources # <<>>
    /\ Len(turns) = 1

(* C18: the step in which getConversation(id) resolves sets messages, plan
   and sources from one and the same fetched record, with the welcome message
   alone when the record has no messages, and the conversation id to the id
   that was selected. *)
C18Theorem ==
    [][ \A l \in DOMAIN loads :
          LoadResolves(l) =>
            /\ \E c \in ConversationDetails :
                 /\ messages' = (IF c.messages = <<>> THEN <<WELCOME_MESSAGE>>
                                 ELSE c.messages)
                 /\ currentPlan' = c.plan
                 /\ sources' = c.sources
            /\ conversationId' = loads[l] ]_vars

C18Witness ==
    /\ loadsStarted = 1 /\ loads = <<>>
    /\ turnsDone = 1
    /\ settled.outcome.kind = "resolved"
    /\ settled.outcome.value.plan = "P1"
    /\ settled.outcome.value.sources = <<Source("c1", "x")>>
    /\ conversationId = "B"
    /\ messages = <<WELCOME_MESSAGE>>
    /\ currentPlan = Absent
    /\ sources = <<>>

(* C19: the step in which getConversation(id) rejects leaves messages, plan,
   sources and conversation id as they were, and no error leaves
   handleSelectConversation. *)
C19Theorem ==
    [][ \A l \in DOMAIN loads :
          LoadRejects(l) =>
            /\ messages' = messages
            /\ currentPlan' = currentPlan
            /\ sources' = sources
            /\ conversationId' = conversationId
            /\ ~unhandled' ]_vars

C19Witness ==
    /\ loadsStarted = 1 /\ loads = <<>>
    /\ ~wasReset
    /\ turnsDone = 1 /\ turns = <<>>
    /\ Len(messages) = 3
    /\ currentPlan = "P1"
    /\ conversationId = "A"
    /\ ~isLoading
    /\ ~unhandled

(* C23 as claimed: no two entries of the accumulated sources share a
   chunk_id. *)
C23Claim ==
    \A i, j \in 1..Len(sources) :
        i # j => sources[i].chunk_id # sources[j].chunk_id

(* C24: a step that is neither a new chat nor a loaded conversation leaves
   the transcript a prefix of the new one; a turn appends its user message
   when it starts and one assistant message, the answer or the error text,
   when it completes, each at the end of the transcript as it then is, so
   the assistant messages stand in the order in which the turns completed. *)
C24Theorem ==
    [][ /\ (~HandleNewChat /\ ~(\E l \in DOMAIN loads : LoadResolves(l)))
              => /\ Len(messages') >= Len(messages)
                 /\ SubSeq(messages', 1, Len(messages)) = messages
        /\ turnsStarted' = turnsStarted + 1
              => messages' = messages \o <<Message("user", Last(turns').content)>>
        /\ TurnCompletes
              => LET o == settled'.outcome
                     text == IF o.kind = "resolved" THEN o.value.message
                             ELSE IF o.error.message \in {Absent, ""}
                                  THEN FallbackErrorContent
                                  ELSE o.error.message
                 IN  messages' = messages \o <<Message("assistant", text)>>
      ]_vars

C24Witness ==
    /\ ~wasReset
    /\ turnsDone = 2
    /\ settled.turn = 1
    /\ settled.outcome.kind = "resolved"
    /\ Len(messages) = 5
    /\ messages[2].role = "user" /\ messages[3].role = "user"
    /\ messages[4] = Message("assistant", "boom")
    /\ messages[5] = Message("assistant", "answer")

(* C27 as claimed: isLoading is true in every state in which a turn is in
   flight. *)
C27Claim == turns # <<>> => isLoading

(* C29 as claimed: the goal of the URL is sent by the effect at most once,
   which is as the first turn, and a new chat does not make the effect due
   again. *)
C29Claim ==
    [][ /\ InitialGoalEffect => turnsStarted = 0
        /\ HandleNewChat => ~GoalEffectDue' ]_vars

-----------------------------------------------------------------------------
(* Pacing and termination of the poll loop, checked under SpecPoll *)

CeilDiv(a, b) == (a + b - 1) \div b

(* The step in which the loop issues a status fetch. *)
IssuesFetch == fetches' = fetches + 1

(* C25: within one waitForChatJob call a status fetch is issued only while
   the elapsed time is below maxWaitTime; a fetch after the first is issued
   only after the previous fetch gave a non-terminal snapshot or a 404 and a
   sleep of at least pollInterval, started when that fetch returned, has
   ended; and the call issues at most ceil(maxWaitTime / pollInterval)
   fetches. *)
C25Theorem ==
    [][ /\ fetches' <= CeilDiv(maxWaitTime, pollInterval)
        /\ IssuesFetch =>
             /\ now - startTime < maxWaitTime
             /\ fetches >= 1 =>
                  /\ Len(seen) = fetches
                  /\ NonTerminal(Last(seen)) \/ Is404(Last(seen))
                  /\ wakeAt >= fetchStart + pollInterval
                  /\ now >= wakeAt
                  /\ now - fetchStart >= pollInterval ]_vars

(* Three fetches in a call with maxWaitTime 3 and pollInterval 1: one
   answered by a pending snapshot, one by a 404, and a third issued. *)
C25Witness ==
    /\ maxWaitTime = 3
    /\ pollInterval = 1
    /\ fetches = 3
    /\ Len(seen) >= 2
    /\ NonTerminal(seen[1])
    /\ Is404(seen[2])

(* C26: every waitForChatJob call that is made eventually leaves the poll
   loop with its promise settled, whatever the fetches give, when each fetch
   returns or fails, due timers fire and time advances. *)
C26Theorem == (wpc # "idle") ~> (wpc = "done" /\ outcome.kind # "pending")

(* A call answered by a pending snapshot and then a 404, and by nothing
   else, settled with the polling timeout. *)
C26Witness ==
    /\ wpc = "done"
    /\ Len(seen) >= 2
    /\ NonTerminal(seen[1])
    /\ Is404(seen[2])
    /\ AllBenign(seen)
    /\ outcome = Rejected(TimeoutError(jobId, maxWaitTime))

-----------------------------------------------------------------------------
(* Properties of the history panel, checked under SpecHistory *)

(* C28: when the conversation selected last is the one shown and an older
   handleSelectConversation is the only load still in flight, its completion
   leaves the conversation selected last as the current one: of two
   overlapping loads, the one of the most recently selected conversation
   determines the state, whatever the order in which they return. *)
C28Claim ==
    [][ \A l \in DOMAIN loads :
          (LoadResolves(l) /\ loads' = <<>> /\ conversationId = selected)
             => conversationId' = selected ]_vars

(* A delete request for id is issued in this step. *)
IssuesDelete(id) ==
    /\ Len(deletes') = Len(deletes) + 1
    /\ Last(deletes').id = id

(* The delete button of id is clicked in this step. *)
ClicksDelete(id) == clicks'[id] = clicks[id] + 1

(* C30: a delete request for a conversation is issued only by a click on its
   delete button made while deleteConfirm is that conversation; a click made
   while it is not (a first click, or a click after another conversation was
   armed or the timer fired) only arms the confirmation for the conversation
   clicked; the timer only disarms; an entry leaves the list, and a
   conversation leaves the backend, only when a delete request for it has
   been issued; so a conversation with a request issued or carried out has
   been clicked at least twice. *)
C30Theorem ==
    [][ /\ \A id \in ConvIds :
             /\ IssuesDelete(id) => (ClicksDelete(id) /\ deleteConfirm = id)
             /\ (ClicksDelete(id) /\ deleteConfirm # id) =>
                    /\ deleteConfirm' = id
                    /\ timers' = timers + 1
                    /\ UNCHANGED <<deletes, conversations, stored, chatVars>>
             /\ (id \in stored /\ id \notin stored') =>
                    \E d \in DOMAIN deletes :
                        deletes[d].id = id /\ deletes' = RemoveAt(deletes, d)
             /\ (id \in Listed /\ id \notin Listed') => id \notin stored'
             /\ (id \notin stored' \/ \E d \in DOMAIN deletes' : deletes'[d].id = id)
                    => clicks'[id] >= 2
        /\ (~\E id \in ConvIds : ClicksDelete(id)) => deletes' \in {deletes} \cup { RemoveAt(deletes, d) : d \in DOMAIN deletes }
        /\ timers' = timers - 1 =>
             /\ deleteConfirm' = Absent
             /\ UNCHANGED <<deletes, conversations, stored, chatVars>> ]_vars

(* "A" was armed, then "B" was clicked once, then "A" was clicked twice and
   deleted; "B", clicked once, is still listed and held, and every timer has
   fired. *)
C30Witness ==
    /\ clicks = [id \in ConvIds |-> IF id = "A" THEN 2 ELSE 1]
    /\ "A" \notin stored
    /\ "A" \notin Listed
    /\ "B" \in stored
    /\ "B" \in Listed
    /\ deletes = <<>>
    /\ timers = 0
    /\ deleteConfirm = Absent

-----------------------------------------------------------------------------
(* Properties of fetchAPI, checked under SpecFetch. *)

(* C20 as claimed: a non-2xx response rejects with an APIError whose status
   is the HTTP status, whose message is the body's detail when the body has
   one and "API error: <status>" otherwise, also for an unparseable body, and
   whose details are the parsed body; a 2xx response resolves with the parsed
   body. *)
C20Claim ==
    \A c \in DOMAIN calls :
      (calls[c].pc = "done" /\ calls[c].response # Undefined) =>
        LET r == calls[c].response
            res == calls[c].result
            hasDetail == r.body.json = "object" /\ r.body.detail # JsUndefined
        IN  IF r.status \in 200..299
            THEN /\ res.kind = "resolved"
                 /\ r.body # InvalidJson => res.value = r.body
            ELSE /\ res.kind = "rejected"
                 /\ res.error.name = "APIError"
                 /\ res.error.status = r.status
                 /\ IF hasDetail
                    THEN JsString(res.error.message) = r.body.detail
                    ELSE res.error.message = "API error: " \o ToString(r.status)
                 /\ r.body # InvalidJson => res.error.details = r.body

(* C21 as claimed: config.json is fetched at most once, and every call
   requests the same resolved base URL. *)
C21Claim ==
    /\ configFetches <= 1
    /\ \A c, d \in DOMAIN calls :
         (calls[c].url # Absent /\ calls[d].url # Absent)
            => calls[c].url = calls[d].url

(* C22 as claimed: the apiUrl of config.json when it was fetched and parsed,
   NEXT_PUBLIC_API_URL on a failure, and "/api" only when NEXT_PUBLIC_API_URL
   is unset. *)
C22Claim ==
    \A c \in DOMAIN calls :
      calls[c].config # Absent =>
        /\ calls[c].config = "apiUrl" => calls[c].url = ConfigUrl \o Endpoint
        /\ calls[c].config \in {"network error", "not ok", "invalid json"}
              => calls[c].url = (IF NEXT_PUBLIC_API_URL = Absent THEN "/api"
                                 ELSE NEXT_PUBLIC_API_URL) \o Endpoint
        /\ calls[c].url = "/api" \o Endpoint => NEXT_PUBLIC_API_URL = Absent

(* C22: the apiUrl of config.json when it was fetched and parsed and carries
   one; "/api" when it was fetched and parsed and carries none, whatever
   NEXT_PUBLIC_API_URL is; on a failure (network error, non-OK response,
   parse error) NEXT_PUBLIC_API_URL, and "/api" when that is unset. *)
C22Theorem ==
    \A c \in DOMAIN calls :
      calls[c].config # Absent =>
        calls[c].url =
          (CASE calls[c].config = "apiUrl" -> ConfigUrl
             [] calls[c].config = "no apiUrl" -> "/api"
             [] OTHER -> (IF NEXT_PUBLIC_API_URL = Absent THEN "/api"
                          ELSE NEXT_PUBLIC_API_URL)) \o Endpoint

C22Witness ==
    /\ NEXT_PUBLIC_API_URL # Absent
    /\ Len(calls) = 2
    /\ calls[1].config = "no apiUrl" /\ calls[1].url = "/api" \o Endpoint
    /\ calls[2].config = "invalid json"
    /\ calls[2].url = NEXT_PUBLIC_API_URL \o Endpoint

=============================================================================
